---- MODULE Spec2Model ----
(***************************************************************************)
(* A model of the window-management state machine of src/dwm.c: the        *)
(* client list and the focus stack of the (single) monitor, the tag and    *)
(* view bitmasks, the layout selector and the geometry that tile() and     *)
(* monocle() produce.  One action per X event handler or key command.      *)
(*                                                                         *)
(* A Client struct is identified by the window it manages.  Requests sent  *)
(* to the X server (XMoveResizeWindow, XSendEvent, XChangeProperty, ...)   *)
(* do not feed back into the window manager's own records; what the server *)
(* holds after them (WM_STATE, window geometry, ConfigureNotify sent) is   *)
(* followed by the X_ operators, which SpecMain conjoins to the handlers   *)
(* together with main()'s own steps from setup() to exit.                  *)
(***************************************************************************)
EXTENDS Integers, Sequences, FiniteSets, TLC

\* ------------------------------------------------------------------ bounds
\* Window ids the X server hands out are 1..NumWin.
NumWin == 2
\* LENGTH(tags): the tag names live in config.h; any count up to 31 compiles.
NumTags == 2

\* --------------------------------------------------------------- constants
\* NULL, for a Client pointer (window ids start at 1).
None == 0
\* Largest value of a C int; unsigned int is one bit wider.
INT_MAX == 2147483647
\* #define LASTEvent / layouts[]: the layout table has three entries.
NumLayouts == 3
\* #define LASTEvent 35: the length of handler[].
LASTEvent == 35

Windows == 1..NumWin

\* Every window id the server knows.
XWindows == 1..(NumWin + 1)

\* #define TAGMASK ((1 << LENGTH(tags)) - 1)
TAGMASK == 2^NumTags - 1

\* Arg.ui values a binding can carry: every mask over the tags, the first bit
\* above them alone, and that bit together with a tag bit.
Masks == (0..TAGMASK) \cup {TAGMASK + 1, 2 * TAGMASK + 1}

\* C's & and ^ on unsigned int.
RECURSIVE BitAnd(_, _)
BitAnd(a, b) ==
  IF a = 0 \/ b = 0 THEN 0
  ELSE (a % 2) * (b % 2) + 2 * BitAnd(a \div 2, b \div 2)

RECURSIVE BitXor(_, _)
BitXor(a, b) ==
  IF a = 0 THEN b
  ELSE IF b = 0 THEN a
  ELSE ((a + b) % 2) + 2 * BitXor(a \div 2, b \div 2)

VARIABLES
  cl,        \* the live Client structs, by window: [tags, isfloating, x, y, w, h, bw]
  clients,   \* selmon->clients, the client list (head first, linked by next)
  stack,     \* selmon->stack, the stack list (head first, linked by snext)
  sel,       \* selmon->sel, a window or None
  tagset,    \* selmon->tagset[2]
  seltags,   \* selmon->seltags
  sellt,     \* selmon->sellt
  mfact,     \* selmon->mfact, in hundredths
  nmaster,   \* selmon->nmaster
  borderpx,  \* config.h: border width given to every client
  sw, sh,    \* screen size read from the display in setup()
  crashed,   \* the process has died on a wild function pointer
  log,       \* observer: the events dispatched so far (see each specification)
  running,   \* static int running
  pc,        \* where main() stands: "setup", "select", "scan", "run",
             \* "cleanup" or "exit"
  xerrorhandler, \* the error handler XSetErrorHandler installed last
  xerrors,   \* errors the server has raised that Xlib has not yet read
  otherwm,   \* another client already selects SubstructureRedirect on root
  rootinput, \* XSelectInput on root: <<>> before, then the handler in place
  exit,      \* <<>> while the process lives, <<status>> once it has exited
  stderr,    \* the lines written to stderr
  wmstate,   \* server: each window's WM_STATE property
  xgeom,     \* server: each window's geometry [x, y, w, h]
  xnotify    \* server: the geometry of the last synthetic ConfigureNotify
             \* sent to each window (<<>> if none)

wmvars == <<cl, clients, stack, sel, tagset, seltags, sellt, mfact, nmaster,
            borderpx, sw, sh, crashed>>
\* The X server's side of the windows.
xvars == <<wmstate, xgeom, xnotify>>
\* main()'s progress and its error handling.
lifevars == <<running, pc, xerrorhandler, xerrors, otherwm, rootinput, exit,
              stderr>>
\* The process around the window manager's records, and the server.
procvars == <<lifevars, xvars>>
vars == <<cl, clients, stack, sel, tagset, seltags, sellt, mfact, nmaster,
          borderpx, sw, sh, crashed, log, procvars>>

\* ----------------------------------------------------------------- lists
Range(s) == {s[i] : i \in 1..Len(s)}

\* How often c is linked into list s.
Count(s, c) == Cardinality({i \in 1..Len(s) : s[i] = c})

\* Position of c in s (0 when absent).
IndexOf(s, c) == IF c \in Range(s) THEN CHOOSE i \in 1..Len(s) : s[i] = c /\ \A j \in 1..(i - 1) : s[j] # c ELSE 0

\* attach as it would be if it linked c at the tail.
M_attach_tail(s, c) == Append(s, c)

\* attach / attachstack: c becomes the head of the list.
attach(s, c) == <<c>> \o s

attachstack(s, c) == <<c>> \o s

\* detach / detachstack's unlink loop: walk to the first link that is c and
\* splice it out.  (c is always linked when the code calls it.)
detach(s, c) ==
  IF c \in Range(s)
  THEN [j \in 1..(Len(s) - 1) |-> IF j < IndexOf(s, c) THEN s[j] ELSE s[j + 1]]
  ELSE s

\* wintoclient: the client managing window w, or NULL.
wintoclient(w) == IF w \in Range(clients) THEN w ELSE None

\* ------------------------------------------------------------ visibility
\* #define ISVISIBLE(C) (C->tags & C->mon->tagset[C->mon->seltags]), for the
\* client records cs and the live view v.
ISVISIBLE(cs, v, c) == BitAnd(cs[c].tags, v) # 0

\* for (t = stack; t && !ISVISIBLE(t); t = t->snext): first visible, or NULL.
RECURSIVE FirstVisible(_, _, _)
FirstVisible(s, cs, v) ==
  IF s = <<>> THEN None
  ELSE IF ISVISIBLE(cs, v, Head(s)) THEN Head(s)
  ELSE FirstVisible(Tail(s), cs, v)

\* focus as it would be without the search of the stack for a visible client.
M_focus_nosearch(c, s, cs, v) == c

\* focus(c): the new selmon->sel.  It does not touch the stack list.
focus(c, s, cs, v) ==
  IF c = None \/ ~ISVISIBLE(cs, v, c) THEN FirstVisible(s, cs, v) ELSE c

\* detachstack's second half: the selection after c left the stack s.
detachstackSel(c, s, cs, v, cursel) ==
  IF c = cursel THEN FirstVisible(s, cs, v) ELSE cursel

\* -------------------------------------------------------------- geometry
\* updategeom: the window area starts at the origin and spans the screen.
wx == 0
wy == 0

\* #define WIDTH(X) / HEIGHT(X)
WIDTH(C) == C.w + 2 * C.bw
HEIGHT(C) == C.h + 2 * C.bw

\* resize: a non-positive size is refused and leaves the record as it was.
resize(C, x, y, w, h) ==
  IF w <= 0 \/ h <= 0 THEN C
  ELSE [C EXCEPT !.x = x, !.y = y, !.w = w, !.h = h]

\* unsigned int values are carried as the int they convert to (their residue
\* in -2^31 .. 2^31-1); + and - are then the ordinary ones, and only the
\* division has to look at the unsigned value, 2^32 + s for a negative s.
UDiv(s, q) ==
  IF s >= 0 THEN s \div q
  ELSE IF q = 1 THEN s
  ELSE 2 * (INT_MAX \div q) + ((2 * (INT_MAX % q) + 2 + s) \div q)

\* MIN(A, B)
MIN(a, b) == IF a < b THEN a ELSE b

\* nexttiled, iterated over the whole client list: the visible, non-floating
\* clients in client-list order.
nexttiled(s, cs, v) ==
  SelectSeq(s, LAMBDA c : ~cs[c].isfloating /\ ISVISIBLE(cs, v, c))

\* my += HEIGHT(c) on unsigned int: the sum wraps at 2^32.
UAdd(a, b) ==
  IF a > 0 /\ b > INT_MAX - a THEN (a - INT_MAX - 1) + (b - INT_MAX - 1)
  ELSE a + b

\* tile's master branch for the i-th of n tiled clients: the row height is
\* h = (wh - my) / (MIN(n, nmaster) - i), the cell loses the border.
tilemaster(C, i, n, mw, my, m) ==
  resize(C, wx, wy + my, mw - 2 * C.bw,
         UDiv(m.wh - my, MIN(n, m.nmaster) - i) - 2 * C.bw)

\* tilestack as it would be if it forgot the master width in x.
M_tilestack_x(C, i, n, mw, ty, m) ==
  resize(C, wx, wy + ty, m.ww - mw - 2 * C.bw,
         UDiv(m.wh - ty, n - i) - 2 * C.bw)

\* tile's stack branch: h = (wh - ty) / (n - i), right of the master column.
tilestack(C, i, n, mw, ty, m) ==
  resize(C, wx + mw, wy + ty, m.ww - mw - 2 * C.bw,
         UDiv(m.wh - ty, n - i) - 2 * C.bw)

\* The body of tile's for loop from index i on: tl are the tiled clients,
\* my and ty the heights consumed in the master and in the stack column.
RECURSIVE tileloop(_, _, _, _, _, _, _)
tileloop(cs, tl, i, mw, my, ty, m) ==
  IF i >= Len(tl) THEN cs
  ELSE LET c == tl[i + 1]
       IN IF i < m.nmaster
          THEN LET C == tilemaster(cs[c], i, Len(tl), mw, my, m)
               IN tileloop([cs EXCEPT ![c] = C], tl, i + 1, mw,
                           UAdd(my, HEIGHT(C)), ty, m)
          ELSE LET C == tilestack(cs[c], i, Len(tl), mw, ty, m)
               IN tileloop([cs EXCEPT ![c] = C], tl, i + 1, mw,
                           my, UAdd(ty, HEIGHT(C)), m)

\* tile's master width: mw = n > nmaster ? (nmaster ? ww * mfact : 0) : ww,
\* the float product truncated to unsigned int.
tilemw(n, m) ==
  IF n > m.nmaster
  THEN (IF m.nmaster # 0 THEN (m.ww * m.mfact) \div 100 ELSE 0)
  ELSE m.ww

\* tile(m): the client records after tiling the list s under view v.
tile(cs, s, v, m) ==
  LET tl == nexttiled(s, cs, v)
  IN IF Len(tl) = 0 THEN cs
     ELSE tileloop(cs, tl, 0, tilemw(Len(tl), m), 0, 0, m)

\* monocle(m): every tiled client gets the whole window area, if any client
\* is visible.
monocle(cs, s, v, m) ==
  LET n == Cardinality({i \in 1..Len(s) : ISVISIBLE(cs, v, s[i])})
      tl == nexttiled(s, cs, v)
  IN IF n > 0
     THEN [c \in DOMAIN cs |->
             IF c \in Range(tl)
             THEN resize(cs[c], wx, wy, m.ww - 2 * cs[c].bw, m.wh - 2 * cs[c].bw)
             ELSE cs[c]]
     ELSE cs

\* layouts[]: { "[T]", tile }, { "[F]", NULL }, { "[M]", monocle }.  An index
\* past the table reads whatever follows it in memory: a null pointer, the
\* address of one of the arrange functions, or a word that is no function.
layouts(lt) ==
  IF lt = 0 THEN {"tile"}
  ELSE IF lt = 1 THEN {"NULL"}
  ELSE IF lt = 2 THEN {"monocle"}
  ELSE {"NULL", "tile", "monocle", "wild"}

\* arrange(m): showhide and restack change no record of the window manager
\* (showhide re-applies each client's own geometry), the layout's arrange
\* function does.  The outcomes: the client records, and whether the call
\* through the table killed the process.
arrange(cs, s, v, lt, m) ==
  {[cl |-> IF f = "tile" THEN tile(cs, s, v, m)
           ELSE IF f = "monocle" THEN monocle(cs, s, v, m)
           ELSE cs,
    crashed |-> f = "wild"] : f \in layouts(lt)}

\* The monitor fields the layouts read.
Mon == [ww |-> sw, wh |-> sh, mfact |-> mfact, nmaster |-> nmaster]

\* The live view, selmon->tagset[selmon->seltags].
View == tagset[seltags]

\* ------------------------------------------------------------ environment
\* Geometries XGetWindowAttributes can report for a window that asks to be
\* mapped.
BigAttr == [x |-> 3, y |-> 4, w |-> 640, h |-> 480]
SmallAttr == [x |-> 0, y |-> 0, w |-> 5, h |-> 5]
WinAttrs == {BigAttr, SmallAttr}

\* XGetWindowAttributes's replies over the geometries WA: the call fails, the
\* window is override-redirect, or it is an ordinary window.
AttrReplies(WA) ==
  {[status |-> FALSE, override_redirect |-> FALSE, wa |-> BigAttr],
   [status |-> TRUE, override_redirect |-> TRUE, wa |-> BigAttr]}
  \cup {[status |-> TRUE, override_redirect |-> FALSE, wa |-> a] : a \in WA}

\* config.h as the end-to-end scenarios state it (mfact 0.55, nmaster 1,
\* borderpx 1) on a 1000x800 screen.
DefaultConfig ==
  [sw |-> 1000, sh |-> 800, mfact |-> 55, nmaster |-> 1, borderpx |-> 1]

\* setlayout's argument: -1 is a null arg->v, k >= 0 is &layouts[k].
LayoutArgs == (-1)..(NumLayouts - 1)

\* focusstack's arg->i.
Dirs == {-1, 1}

cfgvars == <<mfact, nmaster, borderpx, sw, sh>>

\* setup() / createmon() / updategeom() on a display with configuration cfg.
createmon(cfg) ==
  /\ cl = <<>>
  /\ clients = <<>>
  /\ stack = <<>>
  /\ sel = None
  /\ tagset = [i \in 0..1 |-> 1]
  /\ seltags = 0
  /\ sellt = 0
  /\ mfact = cfg.mfact
  /\ nmaster = cfg.nmaster
  /\ borderpx = cfg.borderpx
  /\ sw = cfg.sw
  /\ sh = cfg.sh
  /\ crashed = FALSE

\* ---------------------------------------------------------------- handlers
\* applyrules(c): the new client takes the live view as its tags.
applyrules(C, v) == [C EXCEPT !.tags = v]

\* The tail every state-changing handler shares: focus has set the selection
\* to s, the lists are cs/st, the view is (ts, stg), and arrange(selmon) runs
\* over the client records c1.
Arranged(c1, cs, st, s, ts, stg, lt) ==
  \E r \in arrange(c1, cs, ts[stg], lt, Mon) :
    /\ cl' = r.cl
    /\ crashed' = r.crashed
    /\ clients' = cs
    /\ stack' = st
    /\ sel' = s
    /\ tagset' = ts
    /\ seltags' = stg
    /\ sellt' = lt
    /\ UNCHANGED cfgvars

\* manage(w, wa)
manage(w, wa) ==
  LET c == applyrules([tags |-> 0, isfloating |-> FALSE, x |-> wa.x, y |-> wa.y,
                       w |-> wa.w, h |-> wa.h, bw |-> borderpx], View)
      c1 == (w :> c) @@ cl
      cs == attach(clients, w)
      st == attachstack(stack, w)
  IN Arranged(c1, cs, st, focus(w, st, c1, View), tagset, seltags, sellt)

\* maprequest as it would be without the wintoclient test.
M_maprequest_again(w, attrs, override_redirect, wa) ==
  /\ ~crashed
  /\ IF ~attrs \/ override_redirect
     THEN UNCHANGED wmvars
     ELSE manage(w, wa)

\* maprequest as it would be without the XGetWindowAttributes status test.
M_maprequest_unfetched(w, attrs, override_redirect, wa) ==
  /\ ~crashed
  /\ IF override_redirect \/ wintoclient(w) # None
     THEN UNCHANGED wmvars
     ELSE manage(w, wa)

\* maprequest(e): attrs is XGetWindowAttributes's status, wa what it read.
maprequest(w, attrs, override_redirect, wa) ==
  /\ ~crashed
  /\ IF ~attrs \/ override_redirect \/ wintoclient(w) # None
     THEN UNCHANGED wmvars
     ELSE manage(w, wa)

\* detachstack(c): the stack without c, and the selection it leaves.
detachstack(c, st, cs, v, cursel) ==
  [stack |-> detach(st, c),
   sel |-> detachstackSel(c, detach(st, c), cs, v, cursel)]

\* unmanage as it would be without the arrange(m) that ends it.
M_unmanage_noarrange(c) ==
  LET ds == detachstack(c, stack, cl, View, sel)
      c1 == [x \in (DOMAIN cl) \ {c} |-> cl[x]]
  IN /\ cl' = c1
     /\ clients' = detach(clients, c)
     /\ stack' = ds.stack
     /\ sel' = focus(None, ds.stack, c1, View)
     /\ UNCHANGED <<tagset, seltags, sellt, crashed>>
     /\ UNCHANGED cfgvars

\* unmanage(c, destroyed)
unmanage(c) ==
  LET cs == detach(clients, c)
      ds == detachstack(c, stack, cl, View, sel)
      c1 == [x \in (DOMAIN cl) \ {c} |-> cl[x]]
  IN Arranged(c1, cs, ds.stack, focus(None, ds.stack, c1, View),
              tagset, seltags, sellt)

\* destroynotify(e)
destroynotify(w) ==
  /\ ~crashed
  /\ IF wintoclient(w) # None THEN unmanage(wintoclient(w)) ELSE UNCHANGED wmvars

\* unmapnotify as it would be if it unmanaged on synthetic events too.
M_unmapnotify_unmanages(w, send_event) ==
  /\ ~crashed
  /\ IF wintoclient(w) # None
     THEN unmanage(wintoclient(w))
     ELSE UNCHANGED wmvars

\* unmapnotify(e): a synthetic event only rewrites WM_STATE at the server.
unmapnotify(w, send_event) ==
  /\ ~crashed
  /\ IF wintoclient(w) # None /\ ~send_event
     THEN unmanage(wintoclient(w))
     ELSE UNCHANGED wmvars

\* view as it would be if view(0) were a no-op instead of a flip.
M_view_zero_noop(ui) ==
  /\ ~crashed
  /\ IF BitAnd(ui, TAGMASK) = View \/ BitAnd(ui, TAGMASK) = 0
     THEN UNCHANGED wmvars
     ELSE LET stg == BitXor(seltags, 1)
              ts == [tagset EXCEPT ![stg] = BitAnd(ui, TAGMASK)]
          IN Arranged(cl, clients, stack, focus(None, stack, cl, ts[stg]),
                      ts, stg, sellt)

\* view(arg)
view(ui) ==
  /\ ~crashed
  /\ IF BitAnd(ui, TAGMASK) = View
     THEN UNCHANGED wmvars
     ELSE LET stg == BitXor(seltags, 1)
              ts == IF BitAnd(ui, TAGMASK) # 0
                    THEN [tagset EXCEPT ![stg] = BitAnd(ui, TAGMASK)]
                    ELSE tagset
          IN Arranged(cl, clients, stack, focus(None, stack, cl, ts[stg]),
                      ts, stg, sellt)

\* toggleview as it would be without the test for an empty result.
M_toggleview_empty(ui) ==
  /\ ~crashed
  /\ LET newtagset == BitXor(View, BitAnd(ui, TAGMASK))
         ts == [tagset EXCEPT ![seltags] = newtagset]
     IN Arranged(cl, clients, stack, focus(None, stack, cl, newtagset),
                 ts, seltags, sellt)

\* toggleview(arg)
toggleview(ui) ==
  /\ ~crashed
  /\ LET newtagset == BitXor(View, BitAnd(ui, TAGMASK))
         ts == [tagset EXCEPT ![seltags] = newtagset]
     IN IF newtagset # 0
        THEN Arranged(cl, clients, stack, focus(None, stack, cl, newtagset),
                      ts, seltags, sellt)
        ELSE UNCHANGED wmvars

\* tag as it would be without the focus(NULL) that follows the retag.
M_tag_nofocus(ui) ==
  /\ ~crashed
  /\ IF sel # None /\ BitAnd(ui, TAGMASK) # 0
     THEN LET c1 == [cl EXCEPT ![sel].tags = BitAnd(ui, TAGMASK)]
          IN Arranged(c1, clients, stack, sel, tagset, seltags, sellt)
     ELSE UNCHANGED wmvars

\* tag as it would be if it stored arg->ui unmasked.
M_tag_nomask(ui) ==
  /\ ~crashed
  /\ IF sel # None /\ BitAnd(ui, TAGMASK) # 0
     THEN LET c1 == [cl EXCEPT ![sel].tags = ui]
          IN Arranged(c1, clients, stack, focus(None, stack, c1, View),
                      tagset, seltags, sellt)
     ELSE UNCHANGED wmvars

\* tag(arg)
tag(ui) ==
  /\ ~crashed
  /\ IF sel # None /\ BitAnd(ui, TAGMASK) # 0
     THEN LET c1 == [cl EXCEPT ![sel].tags = BitAnd(ui, TAGMASK)]
          IN Arranged(c1, clients, stack, focus(None, stack, c1, View),
                      tagset, seltags, sellt)
     ELSE UNCHANGED wmvars

\* toggletag as it would be if it set the bits (|) instead of flipping them.
M_toggletag_set(ui) ==
  /\ ~crashed
  /\ IF sel = None
     THEN UNCHANGED wmvars
     ELSE LET m == BitAnd(ui, TAGMASK)
              newtags == cl[sel].tags + m - BitAnd(cl[sel].tags, m)
              c1 == [cl EXCEPT ![sel].tags = newtags]
          IN IF newtags # 0
             THEN Arranged(c1, clients, stack, focus(None, stack, c1, View),
                           tagset, seltags, sellt)
             ELSE UNCHANGED wmvars

\* toggletag as it would be without the test for an empty result.
M_toggletag_empty(ui) ==
  /\ ~crashed
  /\ IF sel = None
     THEN UNCHANGED wmvars
     ELSE LET newtags == BitXor(cl[sel].tags, BitAnd(ui, TAGMASK))
              c1 == [cl EXCEPT ![sel].tags = newtags]
          IN Arranged(c1, clients, stack, focus(None, stack, c1, View),
                      tagset, seltags, sellt)

\* toggletag(arg)
toggletag(ui) ==
  /\ ~crashed
  /\ IF sel = None
     THEN UNCHANGED wmvars
     ELSE LET newtags == BitXor(cl[sel].tags, BitAnd(ui, TAGMASK))
              c1 == [cl EXCEPT ![sel].tags = newtags]
          IN IF newtags # 0
             THEN Arranged(c1, clients, stack, focus(None, stack, c1, View),
                           tagset, seltags, sellt)
             ELSE UNCHANGED wmvars

\* The smallest and the largest member of a non-empty set of list positions.
First(S) == CHOOSE j \in S : \A k \in S : j <= k
Last(S) == CHOOSE j \in S : \A k \in S : k <= j

\* focusstack's search as it would be if it did not test ISVISIBLE.
M_focusstackTarget_any(i) ==
  LET p == IndexOf(clients, sel)
      n == Len(clients)
  IN IF i > 0
     THEN clients[IF p < n THEN p + 1 ELSE 1]
     ELSE clients[IF p > 1 THEN p - 1 ELSE n]

\* focusstack's search: the client the selection moves to, or NULL.
focusstackTarget(i) ==
  LET p == IndexOf(clients, sel)
      n == Len(clients)
      vis(S) == {j \in S : ISVISIBLE(cl, View, clients[j])}
  IN IF i > 0
     THEN (IF vis((p + 1)..n) # {} THEN clients[First(vis((p + 1)..n))]
           ELSE IF vis(1..n) # {} THEN clients[First(vis(1..n))]
           ELSE None)
     ELSE (IF vis(1..(p - 1)) # {} THEN clients[Last(vis(1..(p - 1)))]
           ELSE IF vis(p..n) # {} THEN clients[Last(vis(p..n))]
           ELSE None)

\* focusstack(arg)
focusstack(i) ==
  /\ ~crashed
  /\ IF sel = None \/ focusstackTarget(i) = None
     THEN UNCHANGED wmvars
     ELSE /\ sel' = focus(focusstackTarget(i), stack, cl, View)
          /\ UNCHANGED <<cl, clients, stack, tagset, seltags, sellt, crashed>>
          /\ UNCHANGED cfgvars

\* setlayout(arg)
setlayout(k) ==
  /\ ~crashed
  /\ LET lt == IF k < 0 THEN BitXor(sellt, 1) ELSE k
     IN Arranged(cl, clients, stack, sel, tagset, seltags, lt)

\* togglefloating(arg): isfixed is never set, so the flag simply flips; the
\* resize of a client that became floating re-applies its own geometry.
togglefloating ==
  /\ ~crashed
  /\ IF sel = None
     THEN UNCHANGED wmvars
     ELSE LET C == [cl[sel] EXCEPT !.isfloating = ~cl[sel].isfloating]
              c1 == [cl EXCEPT ![sel] =
                       IF C.isfloating THEN resize(C, C.x, C.y, C.w, C.h) ELSE C]
          IN Arranged(c1, clients, stack, sel, tagset, seltags, sellt)

\* killclient(arg): XKillClient goes to the server; no record changes here.
killclient ==
  /\ ~crashed
  /\ UNCHANGED wmvars

\* setmfact(arg): a is arg->f in hundredths; below 1.0 it is added to mfact,
\* from 1.0 on it is an absolute fraction plus one.
setmfactResult(a) == IF a < 100 THEN a + mfact ELSE a - 100

setmfact(a) ==
  /\ ~crashed
  /\ LET f == setmfactResult(a)
     IN IF f < 10 \/ f > 90
        THEN UNCHANGED wmvars
        ELSE \E r \in arrange(cl, clients, View, sellt, [Mon EXCEPT !.mfact = f]) :
               /\ cl' = r.cl
               /\ crashed' = r.crashed
               /\ mfact' = f
               /\ UNCHANGED <<clients, stack, sel, tagset, seltags, sellt,
                              nmaster, borderpx, sw, sh>>

\* ------------------------------------------------------------------ server
\* The geometry XMoveResizeWindow and configure(c) send for the record C.
XGeom(C) == [x |-> C.x, y |-> C.y, w |-> C.w, h |-> C.h]

\* The clients whose resize goes through when layout function f runs over the
\* records c1: resize returns before writing or sending anything if the size
\* is not positive.  (A width of 0 marks a record not written: resize never
\* stores one, and no layout reads a width.)
Resized(c1, s, v, f, m) ==
  LET mark == [c \in DOMAIN c1 |-> [c1[c] EXCEPT !.w = 0]]
      out == IF f = "tile" THEN tile(mark, s, v, m)
             ELSE IF f = "monocle" THEN monocle(mark, s, v, m)
             ELSE mark
  IN {c \in DOMAIN c1 : out[c].w # 0}

\* arrange(m) as the server sees it, when the handler has brought the records
\* to c1 and the server to (xg, xn), and the next state holds what arrange
\* left.  showhide moves a visible window to its recorded place (resize sends
\* its whole geometry and a ConfigureNotify if the selected client floats)
\* and a hidden one off screen; then every resize of the layout function
\* sends the new geometry and a ConfigureNotify.  Past the layout table no
\* layout request is followed.
X_arrange(xg, xn, c1) ==
  LET v == tagset'[seltags']
      f == IF sellt' = 0 THEN "tile" ELSE IF sellt' = 2 THEN "monocle" ELSE "NULL"
      m == [ww |-> sw', wh |-> sh', mfact |-> mfact', nmaster |-> nmaster']
      rs == Resized(c1, clients', v, f, m)
      floats == sel' # None /\ c1[sel'].isfloating
      shown(c) ==
        IF ISVISIBLE(c1, v, c)
        THEN (IF floats THEN XGeom(c1[c])
              ELSE [xg[c] EXCEPT !.x = c1[c].x, !.y = c1[c].y])
        ELSE [xg[c] EXCEPT !.x = (-2) * WIDTH(c1[c]), !.y = c1[c].y]
  IN /\ xgeom' = [w \in XWindows |->
                    IF w \in rs THEN XGeom(cl'[w])
                    ELSE IF w \in Range(stack') THEN shown(w)
                    ELSE xg[w]]
     /\ xnotify' = [w \in XWindows |->
                      IF w \in rs THEN XGeom(cl'[w])
                      ELSE IF w \in Range(stack') /\ ISVISIBLE(c1, v, w) /\ floats
                      THEN XGeom(c1[w])
                      ELSE xn[w]]

\* manage's requests: XMoveResizeWindow, setclientstate(NormalState),
\* configure, then arrange's.
X_manage(w, wa) ==
  LET c == applyrules([tags |-> 0, isfloating |-> FALSE, x |-> wa.x, y |-> wa.y,
                       w |-> wa.w, h |-> wa.h, bw |-> borderpx], View)
  IN /\ wmstate' = [wmstate EXCEPT ![w] = "NormalState"]
     /\ X_arrange([xgeom EXCEPT ![w] = XGeom(c)],
                  [xnotify EXCEPT ![w] = XGeom(c)], (w :> c) @@ cl)

X_maprequest(w, attrs, override_redirect, wa) ==
  IF ~attrs \/ override_redirect \/ wintoclient(w) # None
  THEN UNCHANGED xvars
  ELSE X_manage(w, wa)

\* unmanage's requests: setclientstate(WithdrawnState) unless the window was
\* destroyed, then arrange's.  (xg, xn): the server when unmanage starts.
X_unmanage(c, destroyed, xg, xn) ==
  /\ wmstate' = [wmstate EXCEPT ![c] = IF destroyed THEN "None" ELSE "WithdrawnState"]
  /\ X_arrange(xg, xn, [x \in (DOMAIN cl) \ {c} |-> cl[x]])

\* DestroyNotify: the server has dropped the window with its property; its id
\* stands for a window not yet configured by anyone.
X_destroynotify(w) ==
  LET xg == [xgeom EXCEPT ![w] = BigAttr]
      xn == [xnotify EXCEPT ![w] = <<>>]
  IN IF wintoclient(w) # None
     THEN X_unmanage(w, TRUE, xg, xn)
     ELSE /\ wmstate' = [wmstate EXCEPT ![w] = "None"]
          /\ xgeom' = xg
          /\ xnotify' = xn

X_unmapnotify(w, send_event) ==
  IF wintoclient(w) = None THEN UNCHANGED xvars
  ELSE IF send_event
  THEN /\ wmstate' = [wmstate EXCEPT ![w] = "WithdrawnState"]
       /\ UNCHANGED <<xgeom, xnotify>>
  ELSE X_unmanage(w, FALSE, xgeom, xnotify)

\* configurerequest(e): XConfigureWindow with the event's own value_mask and
\* values, for any window; no record of the window manager is read.
configurerequest(w, ev) ==
  /\ ~crashed
  /\ UNCHANGED wmvars
  /\ xgeom' = [xgeom EXCEPT ![w] =
                 [k \in {"x", "y", "w", "h"} |->
                    IF k \in ev.value_mask THEN ev[k] ELSE xgeom[w][k]]]
  /\ UNCHANGED <<wmstate, xnotify>>

\* ----------------------------------------------------------------- process
\* static int (*xerrorxlib)(Display *, XErrorEvent *): never assigned.
xerrorxlib == "NULL"

\* xerror's allowlist: the errors it returns 0 on.
xerrorIgnores(ee) ==
  \/ ee.error_code = "BadWindow"
  \/ <<ee.request_code, ee.error_code>> \in
       {<<"X_SetInputFocus", "BadMatch">>, <<"X_PolyText8", "BadDrawable">>,
        <<"X_PolyFillRectangle", "BadDrawable">>, <<"X_PolySegment", "BadDrawable">>,
        <<"X_ConfigureWindow", "BadMatch">>, <<"X_GrabButton", "BadAccess">>,
        <<"X_GrabKey", "BadAccess">>, <<"X_CopyArea", "BadDrawable">>}

\* The line xerror prints for an error it does not ignore (X_ChangeWindow-
\* Attributes is request 2, BadAccess is error 10).
xerrorLine(ee) ==
  IF ee = [request_code |-> "X_ChangeWindowAttributes", error_code |-> "BadAccess"]
  THEN "dwm: fatal error: request code=2, error code=10"
  ELSE "dwm: fatal error"

\* die(fmt): the message goes to stderr and the process exits with status 1.
die(msg) ==
  /\ stderr' = Append(stderr, msg)
  /\ exit' = <<1>>
  /\ pc' = "exit"

\* setup(), first part: XSetErrorHandler(xerror); XSync; XSetErrorHandler(xerror).
setupHandlers ==
  /\ pc = "setup"
  /\ xerrorhandler' = "xerror"
  /\ pc' = "select"
  /\ UNCHANGED <<running, xerrors, otherwm, rootinput, exit, stderr, xvars, wmvars>>

\* setup(), second part: XSelectInput on root (the server answers BadAccess
\* if another client holds SubstructureRedirect; the error waits for the next
\* round trip), grabkeys, updategeom, createmon.
setupSelect ==
  /\ pc = "select"
  /\ rootinput' = <<xerrorhandler>>
  /\ xerrors' = IF otherwm
                THEN Append(xerrors, [request_code |-> "X_ChangeWindowAttributes",
                                      error_code |-> "BadAccess"])
                ELSE xerrors
  /\ pc' = "scan"
  /\ UNCHANGED <<running, xerrorhandler, otherwm, exit, stderr, xvars, wmvars>>

\* scan(), then run()'s XSync: Xlib reads the waiting errors and calls the
\* installed handler on each.  xerror prints the ones it does not ignore and
\* calls through xerrorxlib; through a null pointer the process dies on a
\* signal or carries on.
runSync ==
  /\ pc = "scan"
  /\ ~crashed
  /\ xerrors' = <<>>
  /\ LET fatal == SelectSeq(xerrors, LAMBDA ee : ~xerrorIgnores(ee))
     IN IF xerrorhandler = "xerrorstart" /\ xerrors # <<>>
        THEN /\ die("dwm: another window manager is already running")
             /\ UNCHANGED <<running, xerrorhandler, otherwm, rootinput, xvars, wmvars>>
        ELSE IF xerrorhandler = "xerror" /\ fatal # <<>>
        THEN /\ stderr' = Append(stderr, xerrorLine(fatal[1]))
             /\ IF xerrorxlib = "NULL"
                THEN \/ /\ crashed' = TRUE
                        /\ UNCHANGED pc
                     \/ /\ crashed' = FALSE
                        /\ pc' = "run"
                ELSE /\ crashed' = FALSE
                     /\ pc' = "exit"
             /\ exit' = IF xerrorxlib = "NULL" THEN exit ELSE <<1>>
             /\ UNCHANGED <<running, xerrorhandler, otherwm, rootinput, xvars>>
             /\ UNCHANGED <<cl, clients, stack, sel, tagset, seltags, sellt, cfgvars>>
        ELSE /\ pc' = "run"
             /\ UNCHANGED <<running, xerrorhandler, otherwm, rootinput, exit,
                            stderr, xvars, wmvars>>

\* handler[]: the function in slot t of the table, by X11's event numbers
\* (KeyPress is 2, ..., MappingNotify is 34); "NULL" for a slot the
\* initializer leaves empty.
handler(t) ==
  CASE t = 2 -> "keypress"
    [] t = 4 -> "buttonpress"
    [] t = 6 -> "motionnotify"
    [] t = 7 -> "enternotify"
    [] t = 9 -> "focusin"
    [] t = 12 -> "expose"
    [] t = 17 -> "destroynotify"
    [] t = 18 -> "unmapnotify"
    [] t = 20 -> "maprequest"
    [] t = 22 -> "configurenotify"
    [] t = 23 -> "configurerequest"
    [] t = 28 -> "propertynotify"
    [] t = 33 -> "clientmessage"
    [] t = 34 -> "mappingnotify"
    [] OTHER -> "NULL"

\* What run() finds at handler[t]: the slot, or for t past the table the
\* word that happens to follow it in memory, null or not a function.
slot(t) == IF t < LASTEvent THEN {handler(t)} ELSE {"NULL", "wild"}

\* The handlers that read and write no record of the window manager:
\* buttonpress, clientmessage, enternotify, expose, focusin, motionnotify and
\* propertynotify are empty, configurenotify re-reads the unchanged screen
\* size, mappingnotify regrabs the keys.
Stubs ==
  {"buttonpress", "clientmessage", "configurenotify", "enternotify", "expose",
   "focusin", "mappingnotify", "motionnotify", "propertynotify"}

\* run()'s loop body for an event of a type t that is handled by none of the
\* handlers modelled on their own: if (handler[t]) handler[t](&ev).
dispatch(t) ==
  /\ ~crashed
  /\ \E h \in slot(t) :
       /\ h \in Stubs \cup {"NULL", "wild"}
       /\ crashed' = (h = "wild")
  /\ UNCHANGED <<cl, clients, stack, sel, tagset, seltags, sellt, cfgvars>>

\* quit(arg)
quit ==
  /\ ~crashed
  /\ running' = 0
  /\ UNCHANGED wmvars

\* run()'s loop test fails: run returns to main.
runReturn ==
  /\ pc = "run"
  /\ running = 0
  /\ ~crashed
  /\ pc' = "cleanup"
  /\ UNCHANGED <<running, xerrorhandler, xerrors, otherwm, rootinput, exit,
                 stderr, xvars, wmvars>>

\* cleanup(); XCloseDisplay(dpy); return EXIT_SUCCESS.
cleanup ==
  /\ pc = "cleanup"
  /\ pc' = "exit"
  /\ exit' = <<0>>
  /\ UNCHANGED <<running, xerrorhandler, xerrors, otherwm, rootinput, stderr,
                 xvars, wmvars>>

\* ------------------------------------------------------------ specification
\* run()'s loop as it would be without the test of running.
M_Looping_forever == pc = "run"

\* run()'s loop is turning: no quit has run.
Looping ==
  /\ running = 1
  /\ pc = "run"

\* The server before any request about a window: the windows sit where their
\* owners created them, without WM_STATE.
Pristine ==
  /\ wmstate = [w \in XWindows |-> "None"]
  /\ xgeom = [w \in XWindows |-> BigAttr]
  /\ xnotify = [w \in XWindows |-> <<>>]

\* setup() has returned on a display without another window manager and run()
\* has synced and entered its loop.
Started ==
  /\ Looping
  /\ xerrorhandler = "xerror"
  /\ xerrors = <<>>
  /\ otherwm = FALSE
  /\ rootinput = <<"xerror">>
  /\ exit = <<>>
  /\ stderr = <<>>
  /\ Pristine

\* Spec: every handler, with every input, from a freshly set up window manager
\* on the default configuration.  log is not used.
Init ==
  /\ createmon(DefaultConfig)
  /\ log = <<>>
  /\ Started

MapRequest ==
  \E w \in Windows, r \in AttrReplies({BigAttr}) :
    maprequest(w, r.status, r.override_redirect, r.wa) /\ UNCHANGED <<log, procvars>>

UnmapNotify ==
  \E w \in Windows, send_event \in BOOLEAN :
    unmapnotify(w, send_event) /\ UNCHANGED <<log, procvars>>

DestroyNotify == \E w \in Windows : destroynotify(w) /\ UNCHANGED <<log, procvars>>

CmdView == \E ui \in Masks : view(ui) /\ UNCHANGED <<log, procvars>>

CmdToggleView == \E ui \in Masks : toggleview(ui) /\ UNCHANGED <<log, procvars>>

CmdTag == \E ui \in Masks : tag(ui) /\ UNCHANGED <<log, procvars>>

CmdToggleTag == \E ui \in Masks : toggletag(ui) /\ UNCHANGED <<log, procvars>>

CmdFocusStack == \E i \in Dirs : focusstack(i) /\ UNCHANGED <<log, procvars>>

CmdSetLayout == \E k \in LayoutArgs : setlayout(k) /\ UNCHANGED <<log, procvars>>

CmdToggleFloating == togglefloating /\ UNCHANGED <<log, procvars>>

CmdKillClient == killclient /\ UNCHANGED <<log, procvars>>

Next ==
  \/ MapRequest
  \/ UnmapNotify
  \/ DestroyNotify
  \/ CmdView
  \/ CmdToggleView
  \/ CmdTag
  \/ CmdToggleTag
  \/ CmdFocusStack
  \/ CmdSetLayout
  \/ CmdToggleFloating
  \/ CmdKillClient

Spec == Init /\ [][Next]_vars

\* SpecView: the view commands alone.  log holds the arguments of the last
\* three view commands that ran in a row (a toggleview empties it).
Last3(s) == IF Len(s) > 3 THEN SubSeq(s, Len(s) - 2, Len(s)) ELSE s

ViewCmdView == \E ui \in Masks : view(ui) /\ log' = Last3(Append(log, ui)) /\ UNCHANGED procvars

ViewCmdToggleView == \E ui \in Masks : toggleview(ui) /\ log' = <<>> /\ UNCHANGED procvars

NextView ==
  \/ ViewCmdView
  \/ ViewCmdToggleView

SpecView == Init /\ [][NextView]_vars

\* SpecTile: clients come and go, float and are moved to hidden tags under
\* the tile layout, on screens of several sizes.  log holds the first two events since
\* startup, and three placeholders once there were more.
TileConfigs ==
  {[sw |-> s[1], sh |-> s[2], mfact |-> 55, nmaster |-> nm, borderpx |-> b] :
     s \in {<<1000, 800>>, <<37, 23>>, <<5, 20>>}, nm \in 0..2, b \in 1..2}

InitTile ==
  /\ \E cfg \in TileConfigs : createmon(cfg)
  /\ log = <<>>
  /\ Started

\* tag arguments that move the selected client out of the initial view.
HidingMasks == {ui \in Masks : ui = TAGMASK - 1}

OtherEntry == [op |-> "other", win |-> 0, managed |-> FALSE]

MapEntry(w, r) ==
  [op |-> "MapRequest", win |-> w,
   managed |-> (r.status /\ ~r.override_redirect /\ wintoclient(w) = None)]

Logged(e) ==
  /\ log' = IF Len(log) < 2 THEN Append(log, e)
            ELSE <<OtherEntry, OtherEntry, OtherEntry>>
  /\ UNCHANGED procvars

TileMapRequest ==
  \E w \in Windows, r \in AttrReplies(WinAttrs) :
    maprequest(w, r.status, r.override_redirect, r.wa) /\ Logged(MapEntry(w, r))

TileDestroyNotify == \E w \in Windows : destroynotify(w) /\ Logged(OtherEntry)

TileToggleFloating == togglefloating /\ Logged(OtherEntry)

TileFocusStack == \E i \in Dirs : focusstack(i) /\ Logged(OtherEntry)

TileTag == \E ui \in HidingMasks : tag(ui) /\ Logged(OtherEntry)

NextTile ==
  \/ TileMapRequest
  \/ TileDestroyNotify
  \/ TileToggleFloating
  \/ TileFocusStack
  \/ TileTag

SpecTile == InitTile /\ [][NextTile]_vars

\* SpecMfact: the master fraction is moved while windows are mapped.  log holds
\* the last event if it was a setmfact command: its argument and the mfact it
\* found.  The arguments are quarters and halves (and three absolute
\* fractions): on these every float sum, comparison and product of the code
\* has the value the decimal arithmetic here gives it.
MfactArgs == {-25, 25, 107, 150, 175, 197}

MfactMapRequest ==
  \E w \in Windows, r \in AttrReplies({BigAttr}) :
    /\ maprequest(w, r.status, r.override_redirect, r.wa)
    /\ log' = <<>>
    /\ UNCHANGED procvars

MfactDestroyNotify ==
  \E w \in Windows : destroynotify(w) /\ log' = <<>> /\ UNCHANGED procvars

MfactSetMfact ==
  \E a \in MfactArgs :
    /\ setmfact(a)
    /\ log' = <<[f |-> a, mfact |-> mfact]>>
    /\ UNCHANGED procvars

NextMfact ==
  \/ MfactMapRequest
  \/ MfactDestroyNotify
  \/ MfactSetMfact

SpecMfact == Init /\ [][NextMfact]_vars

\* SpecFocus: one window more than in Spec is mapped, unmapped, destroyed,
\* retagged and walked through with focusstack, under the tile layout.  log
\* holds the last event: the handler, its argument, and the selection and the
\* two lists it found; for toggletag also whether it is the second of two in a
\* row with the same argument (n), and the client and tags the first found.
FocusWindows == XWindows

\* toggletag's arg->ui: one tag, every tag, and no tag.
ToggleMasks == {ui \in Masks : ui \in {0, 1, 2, TAGMASK}}

FocusEntry(op, arg) ==
  [op |-> op, arg |-> arg, sel |-> sel, clients |-> clients, stack |-> stack,
   n |-> 0, c0 |-> None, tags0 |-> 0]

ToggleEntry(ui) ==
  LET again == log # <<>> /\ log[1].op = "toggletag" /\ log[1].arg = ui /\ log[1].n = 1
  IN [FocusEntry("toggletag", ui) EXCEPT
        !.n = IF again THEN 2 ELSE 1,
        !.c0 = IF again THEN log[1].c0 ELSE sel,
        !.tags0 = IF again THEN log[1].tags0
                  ELSE IF sel # None THEN cl[sel].tags ELSE 0]

FocusMapRequest ==
  \E w \in FocusWindows, r \in AttrReplies({BigAttr}) :
    /\ maprequest(w, r.status, r.override_redirect, r.wa)
    /\ log' = <<FocusEntry("maprequest",
                           [win |-> w, status |-> r.status,
                            override_redirect |-> r.override_redirect])>>
    /\ UNCHANGED procvars

FocusUnmapNotify ==
  \E w \in FocusWindows, send_event \in BOOLEAN :
    /\ unmapnotify(w, send_event)
    /\ log' = <<FocusEntry("unmapnotify", [win |-> w, send_event |-> send_event])>>
    /\ UNCHANGED procvars

FocusDestroyNotify ==
  \E w \in FocusWindows :
    /\ destroynotify(w)
    /\ log' = <<FocusEntry("destroynotify", [win |-> w, send_event |-> FALSE])>>
    /\ UNCHANGED procvars

FocusTag ==
  \E ui \in HidingMasks :
    tag(ui) /\ log' = <<FocusEntry("tag", ui)>> /\ UNCHANGED procvars

FocusToggleTag ==
  \E ui \in ToggleMasks :
    toggletag(ui) /\ log' = <<ToggleEntry(ui)>> /\ UNCHANGED procvars

FocusFocusStack ==
  \E i \in Dirs :
    focusstack(i) /\ log' = <<FocusEntry("focusstack", i)>> /\ UNCHANGED procvars

NextFocus ==
  \/ FocusMapRequest
  \/ FocusUnmapNotify
  \/ FocusDestroyNotify
  \/ FocusTag
  \/ FocusToggleTag
  \/ FocusFocusStack

SpecFocus == Init /\ [][NextFocus]_vars

\* SpecMain: main() from setup() to exit, with or without another window
\* manager on the display, and the server's side of the windows.  run()
\* fetches X events of every type; the one key bound is quit.  log holds the
\* last event fetched and the records and WM_STATEs its handler found (for an
\* event without a handler of its own also the index run() read handler[] at).
InitMain ==
  /\ createmon(DefaultConfig)
  /\ log = <<>>
  /\ running = 1
  /\ pc = "setup"
  /\ xerrorhandler = "default"
  /\ xerrors = <<>>
  /\ otherwm \in BOOLEAN
  /\ rootinput = <<>>
  /\ exit = <<>>
  /\ stderr = <<>>
  /\ Pristine

\* XEvent.type as the server can send it: the core events and the numbers
\* from LASTEvent on.
EventTypes == 0..(LASTEvent + 1)

\* The geometry a ConfigureRequest asks for, with the value_masks it carries.
AskedAttr == [x |-> 10, y |-> 20, w |-> 300, h |-> 200]

ConfigureEvents ==
  {[x |-> AskedAttr.x, y |-> AskedAttr.y, w |-> AskedAttr.w, h |-> AskedAttr.h,
    value_mask |-> m] : m \in {{"x", "y", "w", "h"}, {"w", "h"}}}

MainEntry(op, arg) ==
  [op |-> op, arg |-> arg, cl |-> cl, clients |-> clients, stack |-> stack,
   sel |-> sel, wmstate |-> wmstate]

MainSetupHandlers == setupHandlers /\ UNCHANGED log

MainSetupSelect == setupSelect /\ UNCHANGED log

MainRunSync == runSync /\ UNCHANGED log

MainMapRequest ==
  \E w \in Windows : \E r \in AttrReplies({xgeom[w]}) :
    /\ Looping
    /\ maprequest(w, r.status, r.override_redirect, r.wa)
    /\ X_maprequest(w, r.status, r.override_redirect, r.wa)
    /\ log' = <<MainEntry("maprequest",
                          [win |-> w, status |-> r.status,
                           override_redirect |-> r.override_redirect])>>
    /\ UNCHANGED lifevars

MainUnmapNotify ==
  \E w \in Windows, send_event \in BOOLEAN :
    /\ Looping
    /\ unmapnotify(w, send_event)
    /\ X_unmapnotify(w, send_event)
    /\ log' = <<MainEntry("unmapnotify", [win |-> w, send_event |-> send_event])>>
    /\ UNCHANGED lifevars

MainDestroyNotify ==
  \E w \in Windows :
    /\ Looping
    /\ destroynotify(w)
    /\ X_destroynotify(w)
    /\ log' = <<MainEntry("destroynotify", [win |-> w])>>
    /\ UNCHANGED lifevars

MainConfigureRequest ==
  \E w \in Windows, ev \in ConfigureEvents :
    /\ Looping
    /\ configurerequest(w, ev)
    /\ log' = <<MainEntry("configurerequest", [win |-> w, ev |-> ev])>>
    /\ UNCHANGED lifevars

MainOtherEvent ==
  \E t \in EventTypes :
    /\ Looping
    /\ dispatch(t)
    /\ log' = <<MainEntry("other", [type |-> t, index |-> t])>>
    /\ UNCHANGED procvars

MainQuit ==
  /\ Looping
  /\ quit
  /\ log' = <<MainEntry("quit", [type |-> 2])>>
  /\ UNCHANGED <<pc, xerrorhandler, xerrors, otherwm, rootinput, exit, stderr, xvars>>

MainRunReturn == runReturn /\ UNCHANGED log

MainCleanup == cleanup /\ UNCHANGED log

NextMain ==
  \/ MainSetupHandlers
  \/ MainSetupSelect
  \/ MainRunSync
  \/ MainMapRequest
  \/ MainUnmapNotify
  \/ MainDestroyNotify
  \/ MainConfigureRequest
  \/ MainOtherEvent
  \/ MainQuit
  \/ MainRunReturn
  \/ MainCleanup

SpecMain == InitMain /\ [][NextMain]_vars

\* SpecMainFair: the same, where the process keeps executing: once run()'s
\* loop test has failed main() goes on to return.
SpecMainFair ==
  /\ SpecMain
  /\ WF_vars(MainRunReturn)
  /\ WF_vars(MainCleanup)

\* ------------------------------------------------------------------ claims
\* C1: every managed client is linked exactly once into the client list and
\* exactly once into the stack list, and the two lists hold the same clients.
C1_ListsAgree ==
  /\ \A c \in DOMAIN cl : Count(clients, c) = 1 /\ Count(stack, c) = 1
  /\ Range(clients) = Range(stack)

\* C1 witness: two clients are managed after maps, a retag that hides one of
\* them, a toggle to floating and a change of layout.
C1_Witness ==
  /\ Cardinality(DOMAIN cl) >= 2
  /\ \E c \in DOMAIN cl : ~ISVISIBLE(cl, View, c)
  /\ \E c \in DOMAIN cl : cl[c].isfloating
  /\ sellt # 0
  /\ seltags = 1

\* C2: a selection, when there is one, is in the stack list and visible under
\* the live view.
C2_SelVisible ==
  sel # None => (sel \in Range(stack) /\ ISVISIBLE(cl, View, sel))

\* C2 witness: a client is selected while another managed client is hidden and
\* the view is no longer the initial one.
C2_Witness ==
  /\ sel # None
  /\ \E c \in DOMAIN cl : ~ISVISIBLE(cl, View, c)
  /\ View # 1

\* C3: the first visible client of the stack list is the selection.
C3_StackHeadIsSel == sel = FirstVisible(stack, cl, View)

\* C4: the layout selector is 0 or 1.
C4_SelltBinary == sellt \in {0, 1}

\* The last three commands were view(A), view(B), view(0) with A and B
\* non-zero masks within TAGMASK.
C5_Ran ==
  /\ Len(log) = 3
  /\ log[1] \in 1..TAGMASK
  /\ log[2] \in 1..TAGMASK
  /\ log[3] = 0

\* C5 as stated: view(A); view(B); view(0) leaves the live view equal to B.
C5_Original == C5_Ran => View = log[2]

\* C5 amended: for A # B, view(A); view(B); view(0) leaves the live view equal
\* to A, the view that was live before view(B).
C5_BackToA == (C5_Ran /\ log[1] # log[2]) => View = log[1]

\* C5 witness: the three commands ran with different A and B, neither of them
\* the initial view.
C5_Witness ==
  /\ C5_Ran
  /\ log[1] # log[2]
  /\ log[1] # 1
  /\ log[2] # 1

\* The tiled clients of the live view, and the two columns tile puts them in.
Tiled == nexttiled(clients, cl, View)

MasterCol == SubSeq(Tiled, 1, MIN(Len(Tiled), nmaster))

StackCol == SubSeq(Tiled, MIN(Len(Tiled), nmaster) + 1, Len(Tiled))

RECURSIVE SumHEIGHT(_)
SumHEIGHT(s) == IF s = <<>> THEN 0 ELSE HEIGHT(cl[Head(s)]) + SumHEIGHT(Tail(s))

\* The bordered rectangles of clients a and b share a pixel.
Overlap(a, b) ==
  /\ cl[a].x < cl[b].x + WIDTH(cl[b])
  /\ cl[b].x < cl[a].x + WIDTH(cl[a])
  /\ cl[a].y < cl[b].y + HEIGHT(cl[b])
  /\ cl[b].y < cl[a].y + HEIGHT(cl[a])

\* The bordered rectangle of client c lies within (wx, wy, ww, wh).
Inside(c) ==
  /\ cl[c].x >= wx
  /\ cl[c].y >= wy
  /\ cl[c].x + WIDTH(cl[c]) <= wx + sw
  /\ cl[c].y + HEIGHT(cl[c]) <= wy + sh

\* |a - b| <= d
Within(a, b, d) == a - b <= d /\ b - a <= d

\* Each column's heights add up to wh up to rounding r, the columns do not
\* overlap, and every tiled client is inside the window area.
TileLaidOut(r) ==
  /\ MasterCol # <<>> => Within(SumHEIGHT(MasterCol), sh, r)
  /\ StackCol # <<>> => Within(SumHEIGHT(StackCol), sh, r)
  /\ \A a \in Range(MasterCol), b \in Range(StackCol) : ~Overlap(a, b)
  /\ \A c \in Range(Tiled) : Inside(c)

\* Every cell tile computes is larger than the client's border: the width of
\* each column that has clients exceeds 2*bw, and so does wh divided by the
\* number of clients of the column.
CellsFit ==
  LET n == Len(Tiled)
      k == MIN(n, nmaster)
      mw == IF n > nmaster
            THEN (IF nmaster # 0 THEN (sw * mfact) \div 100 ELSE 0)
            ELSE sw
  IN /\ k > 0 => (mw > 2 * borderpx /\ sh \div k > 2 * borderpx)
     /\ n > k => (sw - mw > 2 * borderpx /\ sh \div (n - k) > 2 * borderpx)

\* C6 as stated: in tile layout, for any n >= 1 tiled clients and any window
\* area, the columns fill the height (within nmaster pixels of rounding), do
\* not overlap and stay inside the window area.
C6_Original == (sellt = 0 /\ Len(Tiled) >= 1) => TileLaidOut(nmaster)

\* C6 amended: the same, with the heights adding up exactly, whenever every
\* cell is larger than the border so that resize applies it.
C6_TileWhenCellsFit ==
  (sellt = 0 /\ Len(Tiled) >= 1 /\ CellsFit) => TileLaidOut(0)

\* C6 witness: clients in both columns of a window area of odd height.
C6_Witness ==
  /\ sellt = 0
  /\ CellsFit
  /\ MasterCol # <<>>
  /\ StackCol # <<>>
  /\ sh % 2 = 1

\* The run so far: MapRequest for window 1, then MapRequest for window 2, both
\* managed, on the 1000x800 screen with mfact 0.55, nmaster 1, borderpx 1.
C7_Ran ==
  /\ Len(log) = 2
  /\ log[1] = [op |-> "MapRequest", win |-> 1, managed |-> TRUE]
  /\ log[2] = [op |-> "MapRequest", win |-> 2, managed |-> TRUE]
  /\ sw = 1000 /\ sh = 800 /\ mfact = 55 /\ nmaster = 1 /\ borderpx = 1

Geom(c) == <<cl[c].x, cl[c].y, cl[c].w, cl[c].h>>

\* C7 as stated: W1 is the master at (0, 0, 548, 798) and W2 is in the stack
\* column at (550, 0, 448, 798).
C7_Original ==
  C7_Ran => (Geom(1) = <<0, 0, 548, 798>> /\ Geom(2) = <<550, 0, 448, 798>>)

\* C7 amended: the window mapped last, W2, is the master at (0, 0, 548, 798)
\* and W1 is in the stack column at (550, 0, 448, 798).
C7_LastMappedIsMaster ==
  C7_Ran => (Geom(2) = <<0, 0, 548, 798>> /\ Geom(1) = <<550, 0, 448, 798>>)

\* C7 witness: the two maps have run and both windows are tiled and visible.
C7_Witness == C7_Ran /\ Tiled = <<2, 1>> /\ sel = 2

\* C8: the live view is never empty.
C8_ViewNonEmpty == tagset[seltags] # 0

\* C8 witness: both view slots have been rewritten and the second one is live.
C8_Witness ==
  /\ seltags = 1
  /\ tagset[0] # 1
  /\ tagset[1] = TAGMASK

\* C9: no client carries a tag bit outside TAGMASK.
C9_TagsInMask == \A c \in DOMAIN cl : cl[c].tags \div (TAGMASK + 1) = 0

\* C9 witness: a client whose tags were rewritten by tag or toggletag: they
\* differ from every view it could have been mapped under or is shown under.
C9_Witness ==
  \E c \in DOMAIN cl :
    /\ cl[c].tags = TAGMASK
    /\ tagset[0] = 1
    /\ tagset[1] = 1

\* The inputs on which a command is rejected.
tagRejects(ui) == sel = None \/ BitAnd(ui, TAGMASK) = 0

toggletagRejects(ui) ==
  sel = None \/ BitXor(cl[sel].tags, BitAnd(ui, TAGMASK)) = 0

toggleviewRejects(ui) == BitXor(View, BitAnd(ui, TAGMASK)) = 0

\* C10: a step that is a rejected tag, toggletag, toggleview or killclient
\* leaves every record of the window manager as it was: a step that changes
\* one is none of these.
C10_RejectedStep ==
  \/ UNCHANGED wmvars
  \/ /\ \A ui \in Masks :
          /\ ~(tagRejects(ui) /\ tag(ui))
          /\ ~(toggletagRejects(ui) /\ toggletag(ui))
          /\ ~(toggleviewRejects(ui) /\ toggleview(ui))
     /\ ~(sel = None /\ killclient)

C10_RejectedNoChange == [][C10_RejectedStep]_vars

\* C10 witness: clients are managed but none is selected, so tag, toggletag
\* and killclient are rejected, and toggleview of the whole live view is too.
C10_Witness ==
  /\ sel = None
  /\ Len(clients) > 0
  /\ View # TAGMASK

\* C11: setmfact accepts exactly the results in [0.05, 0.95]: such a result
\* becomes mfact, any other leaves mfact as it was.
C11_Result == IF log[1].f < 100 THEN log[1].f + log[1].mfact ELSE log[1].f - 100

C11_AcceptsFiveToNinetyFive ==
  log # <<>> =>
    IF 5 <= C11_Result /\ C11_Result <= 95
    THEN mfact = C11_Result
    ELSE mfact = log[1].mfact

\* The last two events were toggletag(t) twice in a row, the first with a
\* selection and not rejected by the empty-mask rule.
C12_Ran ==
  /\ log # <<>>
  /\ log[1].op = "toggletag"
  /\ log[1].n = 2
  /\ log[1].c0 # None
  /\ BitXor(log[1].tags0, BitAnd(log[1].arg, TAGMASK)) # 0

\* C12 as stated: the client selected before the first toggletag(t) has its
\* original tags after the second.
C12_Original == C12_Ran => cl[log[1].c0].tags = log[1].tags0

\* C12 amended: the same, provided that client is still the selected one when
\* the second toggletag(t) runs.
C12_TwiceOnSelected ==
  (C12_Ran /\ log[1].sel = log[1].c0) => cl[log[1].c0].tags = log[1].tags0

\* C12 witness: a tag was flipped on and off again on a client that stayed
\* selected, beside another client.
C12_Witness ==
  /\ C12_Ran
  /\ log[1].sel = log[1].c0
  /\ BitAnd(log[1].arg, TAGMASK) # 0
  /\ Len(clients) > 1

\* C13: SubstructureRedirect is selected on the root while the temporary
\* handler xerrorstart is installed, and once the server's BadAccess for that
\* request has been read the process has exited with status 1 on the message
\* "another window manager is already running".
C13_ProbeUnderTemporaryHandler ==
  /\ rootinput # <<>> => rootinput[1] = "xerrorstart"
  /\ (otherwm /\ rootinput # <<>> /\ xerrors = <<>>) =>
       (/\ exit = <<1>>
        /\ stderr = <<"dwm: another window manager is already running">>)

\* C14: once quit has run no further event is fetched or dispatched; run
\* returns, cleanup runs and the process exits with status 0.
C14_Step ==
  /\ running = 0 => (log' = log /\ UNCHANGED <<wmvars, xvars>>)
  /\ (running = 0 /\ pc = "run") => pc' = "cleanup"
  /\ pc = "cleanup" => (pc' = "exit" /\ exit' = <<0>>)

C14_QuitEndsRun ==
  /\ [][C14_Step]_vars
  /\ (running = 0) ~> (pc = "exit" /\ exit = <<0>>)

\* C14 witness: the process has exited with status 0 after a quit that found
\* clients managed.
C14_Witness ==
  /\ pc = "exit"
  /\ exit = <<0>>
  /\ running = 0
  /\ log # <<>>
  /\ log[1].op = "quit"
  /\ Len(clients) > 0

\* C15: an event of a type without a handler, also of a type at or above the
\* table size, is ignored: run() reads no slot past the table, the process
\* lives and no record of the window manager changes.
C15_UnknownIgnored ==
  (/\ log # <<>>
   /\ log[1].op = "other"
   /\ (log[1].arg.type >= LASTEvent \/ handler(log[1].arg.type) = "NULL")) =>
    (/\ log[1].arg.index < LASTEvent
     /\ ~crashed
     /\ cl = log[1].cl
     /\ clients = log[1].clients
     /\ stack = log[1].stack
     /\ sel = log[1].sel)

\* The last event was a DestroyNotify or a non-synthetic UnmapNotify for the
\* window of the client that was selected.
C16_Ran ==
  /\ log # <<>>
  /\ log[1].op \in {"destroynotify", "unmapnotify"}
  /\ ~log[1].arg.send_event
  /\ log[1].arg.win = log[1].sel

\* C16: when the selected client is unmanaged it leaves the client list and
\* the stack list (the others keep their order), the selection is the first
\* client in stack order that is visible under the live view, or none if no
\* client is, and the remaining tiled clients are laid out over the whole
\* window area.
C16_SelectedUnmanaged ==
  C16_Ran =>
    LET w == log[1].arg.win
        vis == {i \in 1..Len(stack) : BitAnd(cl[stack[i]].tags, View) # 0}
    IN /\ w \notin DOMAIN cl
       /\ clients = SelectSeq(log[1].clients, LAMBDA c : c # w)
       /\ stack = SelectSeq(log[1].stack, LAMBDA c : c # w)
       /\ IF vis = {} THEN sel = None
          ELSE \E i \in vis : sel = stack[i] /\ \A j \in vis : i <= j
       /\ TileLaidOut(0)
       /\ \A a \in Range(MasterCol) :
            IF StackCol = <<>> THEN WIDTH(cl[a]) = sw
            ELSE \A b \in Range(StackCol) : WIDTH(cl[a]) + WIDTH(cl[b]) = sw

\* C16 witness: the selected client went, and the selection passed over a
\* hidden client in the stack to reach a visible one behind it.
C16_Witness ==
  /\ C16_Ran
  /\ sel # None
  /\ \E i \in 1..Len(stack) :
       /\ BitAnd(cl[stack[i]].tags, View) = 0
       /\ i < IndexOf(stack, sel)

\* C17: after a ConfigureRequest for a managed, non-floating client the
\* window's geometry at the server is still the client's recorded geometry,
\* and the last ConfigureNotify it was sent carries that geometry.
C17_TiledRequestNotForwarded ==
  (/\ log # <<>>
   /\ log[1].op = "configurerequest"
   /\ log[1].arg.win \in DOMAIN cl
   /\ ~cl[log[1].arg.win].isfloating) =>
    (/\ xgeom[log[1].arg.win] = XGeom(cl[log[1].arg.win])
     /\ xnotify[log[1].arg.win] = XGeom(cl[log[1].arg.win]))

\* The last event was an UnmapNotify.
C18_Ran ==
  /\ log # <<>>
  /\ log[1].op = "unmapnotify"

\* C18: an UnmapNotify for a managed window, if synthetic, leaves the client
\* in both lists and the selection alone and sets the window's WM_STATE to
\* WithdrawnState, nothing else; if not synthetic, the client is unmanaged and
\* the window is left in WithdrawnState (destroyed = false).  For an unmanaged
\* window nothing changes.
C18_UnmapNotify ==
  C18_Ran =>
    LET w == log[1].arg.win
        same == /\ cl = log[1].cl
                /\ clients = log[1].clients
                /\ stack = log[1].stack
                /\ sel = log[1].sel
    IN IF w \notin Range(log[1].clients)
       THEN same /\ wmstate = log[1].wmstate
       ELSE IF log[1].arg.send_event
       THEN /\ same
            /\ w \in Range(clients) /\ w \in Range(stack)
            /\ wmstate = [log[1].wmstate EXCEPT ![w] = "WithdrawnState"]
       ELSE /\ w \notin Range(clients)
            /\ w \notin Range(stack)
            /\ w \notin DOMAIN cl
            /\ wmstate = [log[1].wmstate EXCEPT ![w] = "WithdrawnState"]

\* C18 witness: a synthetic UnmapNotify reached the selected one of two
\* clients, which is still selected and now withdrawn.
C18_Witness ==
  /\ C18_Ran
  /\ log[1].arg.send_event
  /\ log[1].arg.win = sel
  /\ Len(clients) = NumWin
  /\ wmstate[sel] = "WithdrawnState"
  /\ log[1].wmstate[sel] = "NormalState"

\* The last event was a MapRequest.
C19_Ran ==
  /\ log # <<>>
  /\ log[1].op = "maprequest"

\* The lists and the selection are as they were before the last event.
C19_Untouched ==
  /\ clients = log[1].clients
  /\ stack = log[1].stack
  /\ sel = log[1].sel
  /\ DOMAIN cl = Range(log[1].clients)

\* The last event's window became a client, at the head of both lists.
C19_Managed ==
  /\ clients = <<log[1].arg.win>> \o log[1].clients
  /\ stack = <<log[1].arg.win>> \o log[1].stack
  /\ DOMAIN cl = Range(clients)

\* No window id occurs twice in the client list or in the stack list.
C19_OneClientPerWindow ==
  /\ \A i, j \in 1..Len(clients) : clients[i] = clients[j] => i = j
  /\ \A i, j \in 1..Len(stack) : stack[i] = stack[j] => i = j

\* C19 as stated: a MapRequest for an override-redirect or already managed
\* window creates no client and leaves the lists and the selection alone; any
\* other MapRequest manages the window; no two clients share a window id.
C19_Original ==
  /\ C19_OneClientPerWindow
  /\ C19_Ran =>
       IF \/ log[1].arg.override_redirect
          \/ log[1].arg.win \in Range(log[1].clients)
       THEN C19_Untouched
       ELSE C19_Managed

\* C19 (amended): a MapRequest for a window whose attributes cannot be
\* fetched, that is override-redirect or that is already managed creates no
\* client and leaves the client list, the stack list and the selection
\* unchanged; any other MapRequest manages the window; in every reachable
\* state no two clients share a window id.
C19_MapRequest ==
  /\ C19_OneClientPerWindow
  /\ C19_Ran =>
       IF \/ ~log[1].arg.status
          \/ log[1].arg.override_redirect
          \/ log[1].arg.win \in Range(log[1].clients)
       THEN C19_Untouched
       ELSE C19_Managed

\* C19 witness: a MapRequest whose attributes were fetched managed a second
\* window.
C19_Witness ==
  /\ C19_Ran
  /\ log[1].arg.status
  /\ ~log[1].arg.override_redirect
  /\ log[1].clients # <<>>
  /\ log[1].arg.win \notin Range(log[1].clients)
  /\ Head(clients) = log[1].arg.win
  /\ Len(clients) = Len(log[1].clients) + 1

\* The last command was focusstack.
C20_Ran ==
  /\ log # <<>>
  /\ log[1].op = "focusstack"

\* How many steps in direction dir lead from position p to position j of a
\* list of n clients, going round the ends; a full turn for p itself.
C20_Steps(dir, p, j, n) ==
  LET d == IF dir > 0 THEN (j - p + n) % n ELSE (p - j + n) % n
  IN IF d = 0 THEN n ELSE d

\* The positions of the client list that hold a visible client.
C20_Visible == {j \in 1..Len(clients) : ISVISIBLE(cl, View, clients[j])}

\* C20: focusstack(dir) with a selection selects the visible client nearest
\* to the old selection along the client list in direction dir (dir > 0:
\* towards the tail, wrapping to the head; otherwise towards the head,
\* wrapping to the tail), never an invisible one; with exactly one visible
\* client the selection is unchanged; with no selection nothing changes.
C20_NearestVisible ==
  C20_Ran =>
    /\ clients = log[1].clients
    /\ stack = log[1].stack
    /\ IF log[1].sel = None
       THEN sel = None
       ELSE LET p == IndexOf(clients, log[1].sel)
                q == IndexOf(clients, sel)
                n == Len(clients)
            IN /\ sel # None
               /\ q \in C20_Visible
               /\ \A j \in C20_Visible :
                    C20_Steps(log[1].arg, p, q, n) <= C20_Steps(log[1].arg, p, j, n)
               /\ Cardinality(C20_Visible) = 1 => sel = log[1].sel

\* C20 witness: focusstack(+1) with three clients passed over the invisible
\* client that follows the old selection.
C20_Witness ==
  /\ C20_Ran
  /\ log[1].arg > 0
  /\ Len(clients) = 3
  /\ log[1].sel = clients[1]
  /\ 2 \notin C20_Visible
  /\ sel = clients[3]

\* C21: whenever arrange runs, sellt is a valid index of layouts[]
\* (sellt < 3), whatever null and non-null setlayout arguments came before;
\* the table is never indexed out of bounds.  sellt only changes in
\* setlayout, which ends with arrange(selmon), so the index arrange last
\* used is the sellt of the state.
C21_SelltInTable == sellt < NumLayouts

\* The clients visible under the live view.
C22_VisibleClients == {c \in Range(clients) : ISVISIBLE(cl, View, c)}

\* C22: after every completed handler or command, sel is none if and only if
\* no client is visible under the live view; whenever at least one client is
\* visible, one of the visible clients is selected.
C22_SelIffVisible ==
  ~crashed =>
    /\ sel = None <=> C22_VisibleClients = {}
    /\ sel # None => sel \in C22_VisibleClients

\* C22 witness: every window is managed, the live view shows none of them,
\* and nothing is selected.
C22_Witness ==
  /\ ~crashed
  /\ Len(clients) = NumWin
  /\ C22_VisibleClients = {}
  /\ sel = None

====
